---- MODULE Spec2Model ----
(***************************************************************************)
(* HESA REST API: the HEI and Entry resource handlers of                   *)
(* src/src/controllers.py over the two tables of src/src/models.py, with   *)
(* the (de)serialisation of src/src/schemas.py.                            *)
(*                                                                         *)
(* One request is handled at a time.  A handler action consumes a request  *)
(* drawn from the bounded input sets, changes the tables as the handler    *)
(* and the session do, and leaves the request and its response in          *)
(* req/resp; Deliver hands the response to the client and returns the      *)
(* application to idle.                                                    *)
(*                                                                         *)
(* The store is the SQLite database configured in create_app: foreign keys *)
(* are declared but not enforced (no PRAGMA foreign_keys), NOT NULL and    *)
(* PRIMARY KEY constraints are.                                            *)
(***************************************************************************)
EXTENDS Integers, Sequences, FiniteSets, TLC

VARIABLES hei,    \* table hei:   sequence of HEI rows in store (rowid) order
          entry,  \* table entry: sequence of Entry rows in store (rowid) order
          req,    \* the request being answered, NoReq when idle
          resp,   \* its response, NoResp when idle
          pre,    \* the two tables as the request found them, NoPre when idle
          user,   \* a User object, NoUser before it is constructed
          call,   \* the last call on the User object and what it returned
          given,  \* the password of the last set_password, NotGiven before
          boot,   \* history of application starts over one database file
          sess,   \* the scoped session of each of two requests in flight
          landed  \* the sessions whose commit succeeded, in commit order

vars == <<hei, entry, req, resp, pre, user, call, given, boot, sess, landed>>

----------------------------------------------------------------------------
(* Bounds *)

\* at most MaxRows rows in the store, both tables together
MaxRows == 2

\* at most MaxStarts starts of the application over one database file
MaxStarts == 3

\* at most MaxServed requests served between the starts
MaxServed == 3

----------------------------------------------------------------------------
(* Values *)

\* SQL NULL / Python None in a text column
NULL == "<null>"
\* Python None in an integer attribute (a transient Entry without entry_id)
NoId == 0
\* a key that the deserialised data does not carry
MissingStr == "<missing>"
MissingInt == -1
\* a query parameter that the request does not carry
NoArg == "<absent>"

UKPRNs == {1, 2}
HeNames == {"A", "B"}
Regions == {"R1", "R2"}
Lats == {"L1"}
EntryIds == {1, 2}
Years == {"Y1", "Y2"}
\* the UKPRN values that Entry bodies carry
EntryUKPRNs == {1}

\* decimal literals and the integers they denote (Python int(), SQLite affinity)
NumericStrs == {"0", "1", "2", "3"}

IntOfStr(s) ==
  CASE s = "0" -> 0
    [] s = "1" -> 1
    [] s = "2" -> 2
    [] s = "3" -> 3

\* str() of an integer attribute, as interpolated into the messages
StrOfInt(n) ==
  CASE n = 0 -> "None"
    [] n = 1 -> "1"
    [] n = 2 -> "2"
    [] n = 3 -> "3"
    [] n = 4 -> "4"
    [] n = 5 -> "5"
    [] n = 6 -> "6"
    [] n = 7 -> "7"
    [] n = 8 -> "8"
    [] n = 9 -> "9"

----------------------------------------------------------------------------
(* JSON values of a request body *)

JAbsent == [t |-> "absent", i |-> 0, s |-> ""]
JNull == [t |-> "null", i |-> 0, s |-> ""]
JInt(n) == [t |-> "int", i |-> n, s |-> ""]
JStr(x) == [t |-> "str", i |-> 0, s |-> x]

----------------------------------------------------------------------------
(* Field deserialisation (marshmallow fields generated by the auto schema) *)

Min(a, b) == IF a < b THEN a ELSE b

\* fields.Integer, not strict: an int, or a string holding a decimal literal
IntegerOk(j) == j.t = "int" \/ (j.t = "str" /\ j.s \in NumericStrs)

IntegerValue(j) == IF j.t = "int" THEN j.i ELSE IntOfStr(j.s)

\* fields.String: a string and nothing else
StringOk(j) == j.t = "str"

\* FieldOk that never demands a key
FieldOk_lax(j, kind, required, allow_none, partial) ==
  CASE j.t = "absent" -> TRUE
    [] j.t = "null" -> allow_none
    [] OTHER -> IF kind = "int" THEN IntegerOk(j) ELSE StringOk(j)

\* one field of a body: a missing key is an error when the field is required
\* and the load is not partial, null when the column is NOT NULL
FieldOk(j, kind, required, allow_none, partial) ==
  CASE j.t = "absent" -> partial \/ ~required
    [] j.t = "null" -> allow_none
    [] OTHER -> IF kind = "int" THEN IntegerOk(j) ELSE StringOk(j)

IntData(j) ==
  CASE j.t = "absent" -> MissingInt
    [] j.t = "null" -> NoId
    [] OTHER -> IntegerValue(j)

StrData(j) ==
  CASE j.t = "absent" -> MissingStr
    [] j.t = "null" -> NULL
    [] OTHER -> j.s

\* serialisation of one attribute
IntDump(n) == IF n = NoId THEN JNull ELSE JInt(n)

StrDump(x) == IF x = NULL THEN JNull ELSE JStr(x)

----------------------------------------------------------------------------
(* Responses *)

Message(status, parts) ==
  [status |-> status, kind |-> "message", msg |-> parts, rows |-> <<>>]

\* a serialised entity (schema.dump of one instance)
Entity(dumped) ==
  [status |-> 200, kind |-> "entity", msg |-> <<>>, rows |-> <<dumped>>]

\* a serialised page (schema.dump with many=True)
Listing(dumped) ==
  [status |-> 200, kind |-> "list", msg |-> <<>>, rows |-> dumped]

\* the error handlers registered on the application: error_handlers.py
\* declares four with @app.errorhandler, and create_app imports only
\* src.controllers, so the decorators never run
ErrorHandlers == {}

\* error_handlers.handle_exception for a non-HTTP exception:
\* jsonify(error=str(e)), 500
handle_exception(exception) ==
  [status |-> 500, kind |-> "error", msg |-> <<exception>>, rows |-> <<>>]

\* error_handlers.handle_exception_http: the JSON object with the keys code,
\* name and description
handle_exception_http(code, name, description) ==
  [status |-> code, kind |-> "http_json", msg |-> <<name, description>>,
   rows |-> <<>>]

\* error_handlers.not_found_error: jsonify(error=str(e)), 404
not_found_error(name, description) ==
  [status |-> 404, kind |-> "error", msg |-> <<name, description>>,
   rows |-> <<>>]

\* the HTML page of werkzeug for an HTTP error that no handler takes
DefaultErrorPage(code, name, description) ==
  [status |-> code, kind |-> "html", msg |-> <<name, description>>,
   rows |-> <<>>]

\* the answer to an HTTP error: the handler registered for the code, else
\* the one for HTTPException, else (handle_exception passes HTTP errors
\* through) the default page
HttpError(code, name, description) ==
  CASE code = 404 /\ "404" \in ErrorHandlers -> not_found_error(name, description)
    [] ~(code = 404 /\ "404" \in ErrorHandlers)
         /\ "HTTPException" \in ErrorHandlers ->
         handle_exception_http(code, name, description)
    [] OTHER -> DefaultErrorPage(code, name, description)

\* an exception that leaves the handler: the registered handler for
\* Exception answers, else the application answers 500 with a body that is
\* not one of the handlers' own
Unhandled(exception) ==
  IF "Exception" \in ErrorHandlers
  THEN handle_exception(exception)
  ELSE [status |-> 500, kind |-> "unhandled", msg |-> <<exception>>,
        rows |-> <<>>]

InternalServerError ==
  Message(500, <<"An Internal Server Error occurred. Please try again later.">>)

\* what a handler leaves behind: its response and the committed tables
Result(r, h, e) == [resp |-> r, hei |-> h, entry |-> e]

----------------------------------------------------------------------------
(* Pagination *)

DefaultPage == 1
DefaultPerPage == 10

\* int(request.args.get(name, default)); ParsesAsInt is false where int() raises
ParsesAsInt(arg) == arg = NoArg \/ arg \in NumericStrs

ArgValue(arg, default) == IF arg = NoArg THEN default ELSE IntOfStr(arg)

\* Offset that counts pages from zero
Offset_from_zero(page, per_page) == page * per_page

Offset(page, per_page) == (page - 1) * per_page

\* LimitOffset that takes the row after the last one too
LimitOffset_inclusive(t, offset, limit) ==
  LET off == IF offset < 0 THEN 0 ELSE offset
      n == IF limit < 0 THEN Len(t) ELSE limit
  IN  SubSeq(t, off + 1, Min(off + n + 1, Len(t)))

\* SELECT ... LIMIT limit OFFSET offset over the table in store order
\* (SQLite: a negative OFFSET is 0, a negative LIMIT is no limit)
LimitOffset(t, offset, limit) ==
  LET off == IF offset < 0 THEN 0 ELSE offset
      n == IF limit < 0 THEN Len(t) ELSE limit
  IN  SubSeq(t, off + 1, Min(off + n, Len(t)))

----------------------------------------------------------------------------
(* HEI: model and schema *)

\* HEI(): every attribute None until set
BlankHEI ==
  [UKPRN |-> NoId, he_name |-> NULL, region |-> NULL, lat |-> NULL, lon |-> NULL]

\* HEISchema.load: unknown keys raise, UKPRN, he_name and region are required
\* and NOT NULL, lat and lon are nullable
HEISchema_valid(b, partial) ==
  /\ ~b.unknown
  /\ FieldOk(b.UKPRN, "int", TRUE, FALSE, partial)
  /\ FieldOk(b.he_name, "str", TRUE, FALSE, partial)
  /\ FieldOk(b.region, "str", TRUE, FALSE, partial)
  /\ FieldOk(b.lat, "str", FALSE, TRUE, partial)
  /\ FieldOk(b.lon, "str", FALSE, TRUE, partial)

HEISchema_data(b) ==
  [UKPRN |-> IntData(b.UKPRN), he_name |-> StrData(b.he_name),
   region |-> StrData(b.region), lat |-> StrData(b.lat), lon |-> StrData(b.lon)]

\* HEI_setattrs that resets the nullable attributes the data does not carry
HEI_setattrs_reset(row, d) ==
  [UKPRN |-> IF d.UKPRN = MissingInt THEN row.UKPRN ELSE d.UKPRN,
   he_name |-> IF d.he_name = MissingStr THEN row.he_name ELSE d.he_name,
   region |-> IF d.region = MissingStr THEN row.region ELSE d.region,
   lat |-> IF d.lat = MissingStr THEN NULL ELSE d.lat,
   lon |-> IF d.lon = MissingStr THEN NULL ELSE d.lon]

\* make_instance: setattr(instance, key, value) for every key of the data
HEI_setattrs(row, d) ==
  [UKPRN |-> IF d.UKPRN = MissingInt THEN row.UKPRN ELSE d.UKPRN,
   he_name |-> IF d.he_name = MissingStr THEN row.he_name ELSE d.he_name,
   region |-> IF d.region = MissingStr THEN row.region ELSE d.region,
   lat |-> IF d.lat = MissingStr THEN row.lat ELSE d.lat,
   lon |-> IF d.lon = MissingStr THEN row.lon ELSE d.lon]

HEISchema_dump(row) ==
  [UKPRN |-> IntDump(row.UKPRN), he_name |-> StrDump(row.he_name),
   region |-> StrDump(row.region), lat |-> StrDump(row.lat),
   lon |-> StrDump(row.lon)]

HEISchema_dump_many(rows) == [i \in 1..Len(rows) |-> HEISchema_dump(rows[i])]

\* the primary key (UKPRN, he_name)
HEI_same_pk(r1, r2) == r1.UKPRN = r2.UKPRN /\ r1.he_name = r2.he_name

\* get_instance of a load without instance (load_instance = True): the row
\* whose primary key is the data's, 0 when there is none or the data lacks a
\* primary key column
HEI_get_instance(h, d) ==
  IF d.UKPRN \in {MissingInt, NoId} \/ d.he_name \in {MissingStr, NULL}
  THEN 0
  ELSE LET found == {i \in 1..Len(h) : HEI_same_pk(h[i], d)}
       IN  IF found = {} THEN 0 ELSE CHOOSE i \in found : TRUE

\* HEI_matches with the comparison inverted
HEI_matches_inverted(h, ukprn) ==
  IF ukprn \in NumericStrs
  THEN {i \in 1..Len(h) : h[i].UKPRN # IntOfStr(ukprn)}
  ELSE {}

\* rows a lookup by the path value finds: HEI.UKPRN == ukprn, the integer
\* column compared with the text of the path
HEI_matches(h, ukprn) ==
  IF ukprn \in NumericStrs
  THEN {i \in 1..Len(h) : h[i].UKPRN = IntOfStr(ukprn)}
  ELSE {}

\* HEI_row_ok without the primary key constraint
HEI_row_ok_no_pk(h, i, row) ==
  row.UKPRN # NoId /\ row.he_name # NULL /\ row.region # NULL

\* the constraints of table hei on a row written at position i (0: a new row)
HEI_row_ok(h, i, row) ==
  /\ row.UKPRN # NoId /\ row.he_name # NULL /\ row.region # NULL
  /\ \A j \in 1..Len(h) : j # i => ~HEI_same_pk(h[j], row)

\* RemoveAt that drops the first row whatever the position
RemoveAt_first(t, i) == Tail(t)

\* DELETE of the row at position i
RemoveAt(t, i) == SubSeq(t, 1, i - 1) \o SubSeq(t, i + 1, Len(t))

----------------------------------------------------------------------------
(* Entry: model and schema *)

\* Entry(): every attribute None until set
BlankEntry ==
  [entry_id |-> NoId, academic_year |-> NULL, classification |-> NULL,
   category_marker |-> NULL, category |-> NULL, value |-> NULL,
   UKPRN |-> NoId, he_name |-> NULL]

\* EntrySchema.load: unknown keys raise; entry_id is the autoincrement
\* primary key and so not required; every other column is NOT NULL and
\* without default, so required
EntrySchema_valid(b, partial) ==
  /\ ~b.unknown
  /\ FieldOk(b.entry_id, "int", FALSE, FALSE, partial)
  /\ FieldOk(b.academic_year, "str", TRUE, FALSE, partial)
  /\ FieldOk(b.classification, "str", TRUE, FALSE, partial)
  /\ FieldOk(b.category_marker, "str", TRUE, FALSE, partial)
  /\ FieldOk(b.category, "str", TRUE, FALSE, partial)
  /\ FieldOk(b.value, "str", TRUE, FALSE, partial)
  /\ FieldOk(b.UKPRN, "int", TRUE, FALSE, partial)
  /\ FieldOk(b.he_name, "str", TRUE, FALSE, partial)

EntrySchema_data(b) ==
  [entry_id |-> IntData(b.entry_id),
   academic_year |-> StrData(b.academic_year),
   classification |-> StrData(b.classification),
   category_marker |-> StrData(b.category_marker),
   category |-> StrData(b.category),
   value |-> StrData(b.value),
   UKPRN |-> IntData(b.UKPRN),
   he_name |-> StrData(b.he_name)]

\* make_instance: setattr(instance, key, value) for every key of the data
Entry_setattrs(row, d) ==
  [entry_id |-> IF d.entry_id = MissingInt THEN row.entry_id ELSE d.entry_id,
   academic_year |-> IF d.academic_year = MissingStr THEN row.academic_year
                     ELSE d.academic_year,
   classification |-> IF d.classification = MissingStr THEN row.classification
                      ELSE d.classification,
   category_marker |-> IF d.category_marker = MissingStr
                       THEN row.category_marker ELSE d.category_marker,
   category |-> IF d.category = MissingStr THEN row.category ELSE d.category,
   value |-> IF d.value = MissingStr THEN row.value ELSE d.value,
   UKPRN |-> IF d.UKPRN = MissingInt THEN row.UKPRN ELSE d.UKPRN,
   he_name |-> IF d.he_name = MissingStr THEN row.he_name ELSE d.he_name]

EntrySchema_dump(row) ==
  [entry_id |-> IntDump(row.entry_id),
   academic_year |-> StrDump(row.academic_year),
   classification |-> StrDump(row.classification),
   category_marker |-> StrDump(row.category_marker),
   category |-> StrDump(row.category),
   value |-> StrDump(row.value),
   UKPRN |-> IntDump(row.UKPRN),
   he_name |-> StrDump(row.he_name)]

EntrySchema_dump_many(rows) ==
  [i \in 1..Len(rows) |-> EntrySchema_dump(rows[i])]

\* get_instance of a load without instance: the row whose entry_id is the
\* data's, 0 when there is none or the data has no entry_id
Entry_get_instance(e, d) ==
  IF d.entry_id \in {MissingInt, NoId}
  THEN 0
  ELSE LET found == {i \in 1..Len(e) : e[i].entry_id = d.entry_id}
       IN  IF found = {} THEN 0 ELSE CHOOSE i \in found : TRUE

\* rows a lookup by the path value finds: Entry.entry_id == id1
Entry_matches(e, id1) ==
  IF id1 \in NumericStrs
  THEN {i \in 1..Len(e) : e[i].entry_id = IntOfStr(id1)}
  ELSE {}

\* the constraints of table entry on a row written at position i (0: a new
\* row); the composite foreign key into hei is declared and not enforced
Entry_row_ok(e, i, row) ==
  /\ row.academic_year # NULL /\ row.classification # NULL
  /\ row.category_marker # NULL /\ row.category # NULL
  /\ row.value # NULL /\ row.UKPRN # NoId /\ row.he_name # NULL
  /\ \A j \in 1..Len(e) : j # i => e[j].entry_id # row.entry_id

\* the id SQLite gives a row inserted without entry_id (INTEGER PRIMARY KEY)
Entry_next_id(e) == IF e = <<>> THEN 1 ELSE e[Len(e)].entry_id + 1

\* table entry is kept in entry_id order (entry_id is the rowid)
Entry_place(e, row) ==
  LET k == Cardinality({i \in 1..Len(e) : e[i].entry_id < row.entry_id})
  IN  SubSeq(e, 1, k) \o <<row>> \o SubSeq(e, k + 1, Len(e))

\* the Entry rows of HEI.entries: the rows that reference the HEI's
\* (UKPRN, he_name)
HEI_entries(e, row) ==
  {j \in 1..Len(e) : e[j].UKPRN = row.UKPRN /\ e[j].he_name = row.he_name}

----------------------------------------------------------------------------
(* HEI handlers: each gives the response and the committed tables *)

index(h, e) ==
  Result([status |-> 200, kind |-> "text", msg |-> <<"Index Page">>,
          rows |-> <<>>], h, e)

\* get_heis with an except clause that takes the ValueError of int() too
get_heis_catches_value_error(h, e, page, per_page) ==
  IF ~ParsesAsInt(page) \/ ~ParsesAsInt(per_page)
  THEN Result(InternalServerError, h, e)
  ELSE LET p == ArgValue(page, DefaultPage)
           n == ArgValue(per_page, DefaultPerPage)
       IN  Result(Listing(HEISchema_dump_many(LimitOffset(h, Offset(p, n), n))),
                  h, e)

get_heis(h, e, page, per_page) ==
  IF ~ParsesAsInt(page) \/ ~ParsesAsInt(per_page)
  THEN Result(Unhandled("ValueError"), h, e)
  ELSE LET p == ArgValue(page, DefaultPage)
           n == ArgValue(per_page, DefaultPerPage)
       IN  Result(Listing(HEISchema_dump_many(LimitOffset(h, Offset(p, n), n))),
                  h, e)

get_hei_using_ukprn(h, e, ukprn) ==
  LET m == HEI_matches(h, ukprn)
  IN  CASE m = {} ->
             Result(Message(404, <<"No result found for UKPRN: ", ukprn>>), h, e)
        [] Cardinality(m) = 1 ->
             Result(Entity(HEISchema_dump(h[CHOOSE i \in m : TRUE])), h, e)
        [] OTHER -> Result(Unhandled("MultipleResultsFound"), h, e)

\* the row the session writes for a loaded body: the existing row with the
\* data's attributes set when get_instance finds one, a new instance otherwise
HEI_loaded(h, i, d) ==
  IF i = 0 THEN HEI_setattrs(BlankHEI, d) ELSE HEI_setattrs(h[i], d)

\* flush of one new (i = 0) or changed (i > 0) row
HEI_write(h, i, row) == IF i = 0 THEN Append(h, row) ELSE [h EXCEPT ![i] = row]

add_hei(h, e, b) ==
  IF ~HEISchema_valid(b, FALSE)
  THEN Result(Message(400, <<"The HEI details failed validation.">>), h, e)
  ELSE LET d == HEISchema_data(b)
           i == HEI_get_instance(h, d)
           row == HEI_loaded(h, i, d)
       IN  IF HEI_row_ok(h, i, row)
           THEN Result(Message(200, <<"HEI ", row.he_name, " added successfully">>),
                       HEI_write(h, i, row), e)
           ELSE Result(InternalServerError, h, e)

\* session.delete(hei) and commit: the Entry rows of hei.entries get their
\* foreign key columns set to NULL first (no delete cascade), which the
\* NOT NULL columns of entry refuse
HEI_delete_ok(h, e, i) == HEI_entries(e, h[i]) = {}

\* delete_hei_using_ukprn with a delete cascade on HEI.entries
delete_hei_using_ukprn_cascade(h, e, ukprn) ==
  LET m == HEI_matches(h, ukprn)
      notFound == Message(404, <<"HEI with UKPRN ", ukprn, " not found.">>)
  IN  IF Cardinality(m) # 1
      THEN Result(notFound, h, e)
      ELSE LET i == CHOOSE j \in m : TRUE
               kept(r) == ~(r.UKPRN = h[i].UKPRN /\ r.he_name = h[i].he_name)
           IN  Result(Message(200, <<"HEI ", StrOfInt(h[i].UKPRN),
                                     " deleted successfully">>),
                      RemoveAt(h, i), SelectSeq(e, kept))

delete_hei_using_ukprn(h, e, ukprn) ==
  LET m == HEI_matches(h, ukprn)
      notFound == Message(404, <<"HEI with UKPRN ", ukprn, " not found.">>)
  IN  IF Cardinality(m) # 1
      THEN Result(notFound, h, e)
      ELSE LET i == CHOOSE j \in m : TRUE
           IN  IF HEI_delete_ok(h, e, i)
               THEN Result(Message(200, <<"HEI ", StrOfInt(h[i].UKPRN),
                                          " deleted successfully">>),
                           RemoveAt(h, i), e)
               ELSE Result(notFound, h, e)

\* NotFoundEnds without the PUT branch: any method ends with 404
NotFoundEnds_any_method(method) == TRUE

\* a lookup that finds no row ends the request with 404 for PATCH; for PUT
\* the handler goes on to load the body
NotFoundEnds(method) == method = "PATCH"

\* the instance hei_update merges: for PATCH the found row (load with
\* instance=hei, partial=True), for PUT whatever the load of the body alone
\* gives; the instance seeded with the path key is not passed to the load
HEI_update_target(h, m, method, d) ==
  IF method = "PATCH" THEN CHOOSE i \in m : TRUE ELSE HEI_get_instance(h, d)

\* hei_update that validates the body before it looks the key up
hei_update_validates_first(h, e, method, ukprn, b) ==
  LET m == HEI_matches(h, ukprn)
  IN  IF ~HEISchema_valid(b, method = "PATCH")
      THEN Result(Message(400, <<"The HEI details failed validation.">>), h, e)
      ELSE CASE Cardinality(m) > 1 ->
                  Result(Unhandled("MultipleResultsFound"), h, e)
             [] m = {} /\ NotFoundEnds(method) ->
                  Result(Message(404, <<"No result found for UKPRN: ", ukprn>>),
                         h, e)
             [] OTHER ->
                  LET d == HEISchema_data(b)
                      i == HEI_update_target(h, m, method, d)
                      row == HEI_loaded(h, i, d)
                  IN  IF HEI_row_ok(h, i, row)
                      THEN Result(Message(200, <<"HEI with UKPRN ",
                                                 StrOfInt(row.UKPRN),
                                                 " updated successfully">>),
                                  HEI_write(h, i, row), e)
                      ELSE Result(InternalServerError, h, e)

hei_update(h, e, method, ukprn, b) ==
  LET m == HEI_matches(h, ukprn)
  IN  CASE Cardinality(m) > 1 -> Result(Unhandled("MultipleResultsFound"), h, e)
        [] m = {} /\ NotFoundEnds(method) ->
             Result(Message(404, <<"No result found for UKPRN: ", ukprn>>), h, e)
        [] OTHER ->
             IF ~HEISchema_valid(b, method = "PATCH")
             THEN Result(Message(400, <<"The HEI details failed validation.">>),
                         h, e)
             ELSE LET d == HEISchema_data(b)
                      i == HEI_update_target(h, m, method, d)
                      row == HEI_loaded(h, i, d)
                  IN  IF HEI_row_ok(h, i, row)
                      THEN Result(Message(200, <<"HEI with UKPRN ",
                                                 StrOfInt(row.UKPRN),
                                                 " updated successfully">>),
                                  HEI_write(h, i, row), e)
                      ELSE Result(InternalServerError, h, e)

----------------------------------------------------------------------------
(* Entry handlers *)

get_entries(h, e, page, per_page) ==
  IF ~ParsesAsInt(page) \/ ~ParsesAsInt(per_page)
  THEN Result(Unhandled("ValueError"), h, e)
  ELSE LET p == ArgValue(page, DefaultPage)
           n == ArgValue(per_page, DefaultPerPage)
       IN  Result(Listing(EntrySchema_dump_many(
                            LimitOffset(e, Offset(p, n), n))), h, e)

\* get_entry that takes the row out of the table as it returns it
get_entry_consumes(h, e, id1) ==
  LET m == Entry_matches(e, id1)
  IN  CASE m = {} ->
             Result(Message(404, <<"No result found for entry_id: ", id1>>), h, e)
        [] Cardinality(m) = 1 ->
             LET i == CHOOSE j \in m : TRUE
             IN  Result(Entity(EntrySchema_dump(e[i])), h, RemoveAt(e, i))
        [] OTHER -> Result(Unhandled("MultipleResultsFound"), h, e)

get_entry(h, e, id1) ==
  LET m == Entry_matches(e, id1)
  IN  CASE m = {} ->
             Result(Message(404, <<"No result found for entry_id: ", id1>>), h, e)
        [] Cardinality(m) = 1 ->
             Result(Entity(EntrySchema_dump(e[CHOOSE i \in m : TRUE])), h, e)
        [] OTHER -> Result(Unhandled("MultipleResultsFound"), h, e)

Entry_loaded(e, i, d) ==
  IF i = 0 THEN Entry_setattrs(BlankEntry, d) ELSE Entry_setattrs(e[i], d)

\* the row as the store holds it: a new row without entry_id gets the next id
Entry_stored(e, i, row) ==
  IF i = 0 /\ row.entry_id = NoId
  THEN [row EXCEPT !.entry_id = Entry_next_id(e)]
  ELSE row

\* flush of one new (i = 0) or changed (i > 0) row
Entry_write(e, i, row) ==
  IF i = 0 THEN Entry_place(e, row) ELSE Entry_place(RemoveAt(e, i), row)

add_entry(h, e, b) ==
  IF ~EntrySchema_valid(b, FALSE)
  THEN Result(Message(400, <<"The entry details failed validation.">>), h, e)
  ELSE LET d == EntrySchema_data(b)
           i == Entry_get_instance(e, d)
           row == Entry_stored(e, i, Entry_loaded(e, i, d))
       IN  IF Entry_row_ok(e, i, row)
           THEN Result(Message(200, <<"Entry ", StrOfInt(row.entry_id),
                                      " added successfully">>),
                       h, Entry_write(e, i, row))
           ELSE Result(InternalServerError, h, e)

delete_entry(h, e, id1) ==
  LET m == Entry_matches(e, id1)
  IN  IF Cardinality(m) # 1
      THEN Result(Message(404, <<"Entry with id ", id1, " not found.">>), h, e)
      ELSE Result(Message(200, <<"Entry ", id1, " deleted successfully">>),
                  h, RemoveAt(e, CHOOSE j \in m : TRUE))

Entry_update_target(e, m, method, d) ==
  IF method = "PATCH" THEN CHOOSE i \in m : TRUE ELSE Entry_get_instance(e, d)

entry_update(h, e, method, id1, b) ==
  LET m == Entry_matches(e, id1)
  IN  CASE Cardinality(m) > 1 -> Result(Unhandled("MultipleResultsFound"), h, e)
        [] m = {} /\ NotFoundEnds(method) ->
             Result(Message(404, <<"No result found for entry_id: ", id1>>), h, e)
        [] OTHER ->
             IF ~EntrySchema_valid(b, method = "PATCH")
             THEN Result(Message(400, <<"The entry details failed validation.">>),
                         h, e)
             ELSE LET d == EntrySchema_data(b)
                      i == Entry_update_target(e, m, method, d)
                      loaded == Entry_loaded(e, i, d)
                      row == Entry_stored(e, i, loaded)
                  IN  IF Entry_row_ok(e, i, row)
                      THEN Result(Message(200, <<"Entry with entry_id ",
                                                 StrOfInt(loaded.entry_id),
                                                 " updated successfully">>),
                                  h, Entry_write(e, i, row))
                      ELSE Result(InternalServerError, h, e)

----------------------------------------------------------------------------
(* Requests that reach no handler *)

\* no rule of the URL map matches the path: werkzeug NotFound
route_miss(h, e) ==
  Result(HttpError(404, "Not Found", "The requested URL was not found"), h, e)

\* a rule matches the path and none allows the method: MethodNotAllowed
method_not_allowed(h, e) ==
  Result(HttpError(405, "Method Not Allowed",
                   "The method is not allowed for the requested URL."), h, e)

----------------------------------------------------------------------------
(* Handlers when the store raises *)

\* the list query raises: int() of the arguments comes first, the
\* SQLAlchemyError of execute is caught
get_heis_query_raises(h, e, page, per_page) ==
  IF ~ParsesAsInt(page) \/ ~ParsesAsInt(per_page)
  THEN Result(Unhandled("ValueError"), h, e)
  ELSE Result(InternalServerError, h, e)

get_entries_query_raises(h, e, page, per_page) ==
  IF ~ParsesAsInt(page) \/ ~ParsesAsInt(per_page)
  THEN Result(Unhandled("ValueError"), h, e)
  ELSE Result(InternalServerError, h, e)

\* CommitRaises where the write of the failed commit stays in the tables
CommitRaises_keeps_write(res, h, e) ==
  IF res.resp.status = 200
  THEN Result(InternalServerError, res.hei, res.entry)
  ELSE res

\* db.session.commit() raises: a handler that got as far as its commit
\* answers from its except exc.SQLAlchemyError branch and nothing is written
CommitRaises(res, h, e) ==
  IF res.resp.status = 200 THEN Result(InternalServerError, h, e) ELSE res

add_hei_commit_raises(h, e, b) == CommitRaises(add_hei(h, e, b), h, e)

hei_update_commit_raises(h, e, method, ukprn, b) ==
  CommitRaises(hei_update(h, e, method, ukprn, b), h, e)

add_entry_commit_raises(h, e, b) == CommitRaises(add_entry(h, e, b), h, e)

entry_update_commit_raises(h, e, method, id1, b) ==
  CommitRaises(entry_update(h, e, method, id1, b), h, e)

----------------------------------------------------------------------------
(* Requests *)

\* path values of /hei/<ukprn> and /entry/<id1>
Keys == {"1", "2"}

\* values of the query parameters page and per_page
PageArgs == {NoArg, "0", "1", "2", "3", "x"}
PerPageArgs == {NoArg, "0", "1", "2", "x"}

HeiBody(u, n, r, la, lo, unknown) ==
  [UKPRN |-> u, he_name |-> n, region |-> r, lat |-> la, lon |-> lo,
   unknown |-> unknown]

\* a complete, valid HEI body that the irregular bodies vary
HeiBaseBody ==
  HeiBody(JInt(1), JStr("A"), JStr("R1"), JAbsent, JAbsent, FALSE)

\* JSON objects sent to the HEI routes: every combination of well-typed
\* UKPRN, he_name, region and lat, each present or not, and bodies with an
\* unknown key, a wrongly typed value, a null or a numeric string
HeiBodies ==
  {HeiBody(u, n, r, la, JAbsent, FALSE) :
     u \in {JAbsent} \cup {JInt(k) : k \in UKPRNs},
     n \in {JAbsent} \cup {JStr(x) : x \in HeNames},
     r \in {JAbsent} \cup {JStr(x) : x \in Regions},
     la \in {JAbsent} \cup {JStr(x) : x \in Lats}}
  \cup {[HeiBaseBody EXCEPT !.unknown = TRUE],
        HeiBody(JAbsent, JAbsent, JAbsent, JAbsent, JAbsent, TRUE),
        [HeiBaseBody EXCEPT !.UKPRN = JStr("x")],
        [HeiBaseBody EXCEPT !.UKPRN = JStr("2")],
        [HeiBaseBody EXCEPT !.he_name = JInt(1)],
        [HeiBaseBody EXCEPT !.region = JNull],
        [HeiBaseBody EXCEPT !.lat = JNull],
        [HeiBaseBody EXCEPT !.lon = JNull]}

EntryBody(id, y, cl, cm, ca, v, u, n, unknown) ==
  [entry_id |-> id, academic_year |-> y, classification |-> cl,
   category_marker |-> cm, category |-> ca, value |-> v, UKPRN |-> u,
   he_name |-> n, unknown |-> unknown]

\* a complete, valid Entry body that the irregular bodies vary
EntryBaseBody ==
  EntryBody(JInt(1), JStr("Y1"), JStr("c"), JStr("m"), JStr("g"), JStr("v"),
            JInt(1), JStr("A"), FALSE)

\* JSON objects sent to the Entry routes: complete bodies with or without
\* entry_id, bodies carrying only some of entry_id, academic_year and UKPRN,
\* complete bodies lacking one required key, and irregular bodies
EntryBodies ==
  {EntryBody(id, JStr(y), JStr("c"), JStr("m"), JStr("g"), JStr("v"),
             JInt(u), JStr("A"), FALSE) :
     id \in {JAbsent} \cup {JInt(k) : k \in EntryIds},
     y \in Years, u \in EntryUKPRNs}
  \cup {EntryBody(id, y, JAbsent, JAbsent, JAbsent, JAbsent, u, JAbsent, FALSE) :
          id \in {JAbsent} \cup {JInt(k) : k \in EntryIds},
          y \in {JAbsent} \cup {JStr(x) : x \in Years},
          u \in {JAbsent} \cup {JInt(k) : k \in EntryUKPRNs}}
  \cup {[EntryBaseBody EXCEPT !.academic_year = JAbsent],
        [EntryBaseBody EXCEPT !.classification = JAbsent],
        [EntryBaseBody EXCEPT !.category_marker = JAbsent],
        [EntryBaseBody EXCEPT !.category = JAbsent],
        [EntryBaseBody EXCEPT !.value = JAbsent],
        [EntryBaseBody EXCEPT !.UKPRN = JAbsent],
        [EntryBaseBody EXCEPT !.he_name = JAbsent],
        [EntryBaseBody EXCEPT !.unknown = TRUE],
        [EntryBaseBody EXCEPT !.entry_id = JStr("2")],
        [EntryBaseBody EXCEPT !.UKPRN = JStr("x")],
        [EntryBaseBody EXCEPT !.value = JNull]}

NoBody == [unknown |-> FALSE]

Request(method, path, key, body, page, per_page) ==
  [method |-> method, path |-> path, key |-> key, body |-> body,
   page |-> page, per_page |-> per_page, store |-> "up"]

\* request r served while the store refuses the handler's list query or
\* commit (an OperationalError such as "database is locked")
StoreDown(r) == [r EXCEPT !.store = "down"]

NoReq == Request("", "", "", NoBody, NoArg, NoArg)
NoResp == [status |-> 0, kind |-> "none", msg |-> <<>>, rows |-> <<>>]
NoPre == [hei |-> <<>>, entry |-> <<>>]

----------------------------------------------------------------------------
(* User: the password methods *)

Emails == {"e1"}
Passwords == {"p1", "p2", "p3"}
\* the salts generate_password_hash draws at random
Salts == {"s1", "s2", "s3"}

\* a string attribute of the User object as the sequence of its parts: <<>>
\* is None, <<p>> the plain password p
NoHash == <<>>
NoUser == [email |-> NULL, password |-> NULL, password_hash |-> NoHash]
NoCall == [op |-> "", arg |-> NULL, ret |-> NULL]
NotGiven == NULL

\* werkzeug _hash_internal: the digest of a password under a salt, a one-way
\* function kept symbolic (equal digests have equal salt and password)
Digest(salt, password) == <<"H", salt, password>>

\* generate_password_hash: "method$salt$digest"
generate_password_hash(password, salt) ==
  <<"scrypt", salt>> \o Digest(salt, password)

\* check_password_hash: false without the two "$", else the digest of the
\* candidate under the stored salt compared with the stored digest
check_password_hash(pwhash, password) ==
  /\ Len(pwhash) >= 3
  /\ Digest(pwhash[2], password) = SubSeq(pwhash, 3, Len(pwhash))

\* User.__init__: keeps email and password as plain attributes and sets no
\* password_hash
User(email, password) ==
  [email |-> email, password |-> password, password_hash |-> NoHash]

\* set_password that hashes the password the constructor kept
set_password_of_init(u, password, salt) ==
  [u EXCEPT !.password_hash = generate_password_hash(u.password, salt)]

set_password(u, password, salt) ==
  [u EXCEPT !.password_hash = generate_password_hash(password, salt)]

\* check_password: "raises" when password_hash is None
check_password(u, password) ==
  IF u.password_hash = NoHash THEN "raises"
  ELSE IF check_password_hash(u.password_hash, password) THEN "True"
  ELSE "False"

Construct ==
  /\ \E e \in Emails, p \in Passwords :
       /\ user' = User(e, p)
       /\ call' = [op |-> "__init__", arg |-> p, ret |-> NULL]
  /\ given' = NotGiven
  /\ UNCHANGED <<hei, entry, req, resp, pre, boot, sess, landed>>

SetPassword ==
  /\ user # NoUser
  /\ \E p \in Passwords, salt \in Salts :
       /\ user' = set_password(user, p, salt)
       /\ call' = [op |-> "set_password", arg |-> p, ret |-> NULL]
       /\ given' = p
  /\ UNCHANGED <<hei, entry, req, resp, pre, boot, sess, landed>>

CheckPassword ==
  /\ user # NoUser
  /\ \E q \in Passwords :
       call' = [op |-> "check_password", arg |-> q,
                ret |-> check_password(user, q)]
  /\ UNCHANGED <<hei, entry, req, resp, pre, user, given, boot, sess, landed>>

UserNext ==
  \/ Construct
  \/ SetPassword
  \/ CheckPassword

----------------------------------------------------------------------------
(* Application start *)

\* the rows of data/hei_data.csv after its header line
hei_data ==
  << [UKPRN |-> 1, he_name |-> "A", region |-> "R1", lat |-> "L1",
      lon |-> "L1"],
     [UKPRN |-> 2, he_name |-> "B", region |-> "R2", lat |-> "L1",
      lon |-> "L1"] >>

\* the rows of data/entry_data.csv after its header line
entry_data ==
  << [entry_id |-> 1, academic_year |-> "Y1", classification |-> "c",
      category_marker |-> "m", category |-> "g", value |-> "v",
      UKPRN |-> 1, he_name |-> "A"],
     [entry_id |-> 2, academic_year |-> "Y1", classification |-> "c",
      category_marker |-> "m", category |-> "g", value |-> "v",
      UKPRN |-> 2, he_name |-> "B"] >>

\* add_data_from_csv without the guards: both files are read at every start
add_data_from_csv_unguarded(h, e) ==
  [hei |-> h \o hei_data, entry |-> e \o entry_data]

\* add_data_from_csv: each table is filled from its file when the first
\* row of a SELECT on it is None, and left alone otherwise
add_data_from_csv(h, e) ==
  [hei   |-> IF h = <<>> THEN hei_data ELSE h,
   entry |-> IF e = <<>> THEN entry_data ELSE e]

NoBoot == [starts |-> 0, hei_loads |-> 0, entry_loads |-> 0, served |-> 0,
           deleted |-> FALSE]

\* create_app: db.create_all() creates missing tables only, then
\* add_data_from_csv(); boot counts the starts and, per table, the starts
\* that inserted rows
create_app ==
  /\ boot.starts < MaxStarts
  /\ LET res == add_data_from_csv(hei, entry) IN
       /\ hei' = res.hei
       /\ entry' = res.entry
       /\ boot' = [boot EXCEPT
                     !.starts = @ + 1,
                     !.hei_loads = @ + IF Len(res.hei) > Len(hei)
                                       THEN 1 ELSE 0,
                     !.entry_loads = @ + IF Len(res.entry) > Len(entry)
                                         THEN 1 ELSE 0]
  /\ UNCHANGED <<req, resp, pre, user, call, given, sess, landed>>

\* a started application serves one request; boot.deleted records that
\* the request was a DELETE that removed a row
Serve(res) ==
  /\ boot.starts > 0
  /\ boot.served < MaxServed
  /\ hei' = res.hei
  /\ entry' = res.entry
  /\ boot' = [boot EXCEPT
                !.served = @ + 1,
                !.deleted = @ \/ Len(res.hei) < Len(hei)
                              \/ Len(res.entry) < Len(entry)]
  /\ UNCHANGED <<req, resp, pre, user, call, given, sess, landed>>

\* bodies POSTed between starts
ServedHeiBodies ==
  {HeiBaseBody,
   [HeiBaseBody EXCEPT !.he_name = JStr("B")],
   [HeiBaseBody EXCEPT !.UKPRN = JInt(2)],
   [HeiBaseBody EXCEPT !.region = JAbsent]}

ServedEntryBodies ==
  {EntryBaseBody,
   [EntryBaseBody EXCEPT !.entry_id = JAbsent],
   [EntryBaseBody EXCEPT !.value = JAbsent]}

ServeAddHei ==
  \E b \in ServedHeiBodies : Serve(add_hei(hei, entry, b))

ServeAddEntry ==
  \E b \in ServedEntryBodies : Serve(add_entry(hei, entry, b))

ServeDeleteHei ==
  \E k \in Keys : Serve(delete_hei_using_ukprn(hei, entry, k))

ServeDeleteEntry ==
  \E k \in Keys : Serve(delete_entry(hei, entry, k))

SeedNext ==
  \/ create_app
  \/ ServeAddHei
  \/ ServeAddEntry
  \/ ServeDeleteHei
  \/ ServeDeleteEntry

----------------------------------------------------------------------------
(* Two write requests in flight *)

\* each request has a session of its own (scoped_session); a handler reads
\* (lookup, load), then commits (flush and COMMIT), then builds its message
\* from the instance, which the commit expired and the access refreshes.
\* The store serialises the statements, not the handlers.
Sessions == {1, 2}

HEIColumns == {"UKPRN", "he_name", "region", "lat", "lon"}

NoSession ==
  [phase |-> "idle", method |-> "", key |-> "", new |-> FALSE,
   old |-> BlankHEI, row |-> BlankHEI, resp |-> NoResp]

\* the handler returned before any commit
Answered(method, key, r) ==
  [NoSession EXCEPT !.phase = "done", !.method = method, !.key = key,
                    !.resp = r]

\* the session holds the instance the load returned: a new one (i = 0) or
\* the persistent row i as it was read, with the attributes of the data set
Pending(method, key, h, i, d) ==
  [phase |-> "loaded", method |-> method, key |-> key, new |-> i = 0,
   old |-> IF i = 0 THEN BlankHEI ELSE h[i], row |-> HEI_loaded(h, i, d),
   resp |-> NoResp]

\* add_hei up to db.session.add(hei)
add_hei_load(h, b) ==
  IF ~HEISchema_valid(b, FALSE)
  THEN Answered("POST", "", Message(400, <<"The HEI details failed validation.">>))
  ELSE LET d == HEISchema_data(b)
       IN  Pending("POST", "", h, HEI_get_instance(h, d), d)

\* hei_update up to db.session.merge(hei_update)
hei_update_load(h, method, ukprn, b) ==
  LET m == HEI_matches(h, ukprn)
  IN  CASE Cardinality(m) > 1 ->
             Answered(method, ukprn, Unhandled("MultipleResultsFound"))
        [] m = {} /\ NotFoundEnds(method) ->
             Answered(method, ukprn,
                      Message(404, <<"No result found for UKPRN: ", ukprn>>))
        [] OTHER ->
             IF ~HEISchema_valid(b, method = "PATCH")
             THEN Answered(method, ukprn,
                           Message(400, <<"The HEI details failed validation.">>))
             ELSE LET d == HEISchema_data(b)
                  IN  Pending(method, ukprn, h,
                              HEI_update_target(h, m, method, d), d)

\* the attributes of a persistent instance with a net change: the flush
\* puts these columns, and no others, in the SET clause of its UPDATE
Changed(s) == {c \in HEIColumns : s.row[c] # s.old[c]}

\* the rows the UPDATE's WHERE clause (the primary key as read) matches now
Persistent(h, s) == {j \in 1..Len(h) : HEI_same_pk(h[j], s.old)}

\* the stored row after the UPDATE
Updated(stored, s) ==
  [UKPRN   |-> IF "UKPRN" \in Changed(s) THEN s.row.UKPRN ELSE stored.UKPRN,
   he_name |-> IF "he_name" \in Changed(s) THEN s.row.he_name
               ELSE stored.he_name,
   region  |-> IF "region" \in Changed(s) THEN s.row.region ELSE stored.region,
   lat     |-> IF "lat" \in Changed(s) THEN s.row.lat ELSE stored.lat,
   lon     |-> IF "lon" \in Changed(s) THEN s.row.lon ELSE stored.lon]

\* db.session.commit() of session s on the store as it is now: INSERT of a
\* new instance (IntegrityError when the constraints refuse it), UPDATE of
\* a changed persistent one (StaleDataError when it matches no row), nothing
\* for an unchanged one
flush(h, s) ==
  IF s.new
  THEN IF HEI_row_ok(h, 0, s.row)
       THEN [ok |-> TRUE, hei |-> Append(h, s.row)]
       ELSE [ok |-> FALSE, hei |-> h]
  ELSE IF Changed(s) = {}
  THEN [ok |-> TRUE, hei |-> h]
  ELSE LET p == Persistent(h, s)
       IN  IF p = {}
           THEN [ok |-> FALSE, hei |-> h]
           ELSE LET j == CHOOSE k \in p : TRUE
                    row == Updated(h[j], s)
                IN  IF HEI_row_ok(h, j, row)
                    THEN [ok |-> TRUE, hei |-> [h EXCEPT ![j] = row]]
                    ELSE [ok |-> FALSE, hei |-> h]

\* the message built after the commit: hei.he_name / hei_update.UKPRN are
\* expired attributes, refreshed by primary key; ObjectDeletedError, a
\* SQLAlchemyError, when the row is gone
success_message(h, s) ==
  IF \E j \in 1..Len(h) : HEI_same_pk(h[j], s.row)
  THEN IF s.method = "POST"
       THEN Message(200, <<"HEI ", s.row.he_name, " added successfully">>)
       ELSE Message(200, <<"HEI with UKPRN ", StrOfInt(s.row.UKPRN),
                           " updated successfully">>)
  ELSE InternalServerError

\* bodies of the requests in flight
RaceBodies ==
  {HeiBaseBody,
   [HeiBaseBody EXCEPT !.region = JStr("R2")],
   [HeiBaseBody EXCEPT !.lat = JStr("L1")],
   [HeiBaseBody EXCEPT !.UKPRN = JAbsent, !.he_name = JStr("B"),
                       !.region = JAbsent],
   [HeiBaseBody EXCEPT !.he_name = JAbsent]}

BeginAddHei(s) ==
  /\ sess[s].phase = "idle"
  /\ \E b \in RaceBodies : sess' = [sess EXCEPT ![s] = add_hei_load(hei, b)]
  /\ UNCHANGED <<hei, entry, req, resp, pre, user, call, given, boot, landed>>

BeginHeiUpdate(s) ==
  /\ sess[s].phase = "idle"
  /\ \E method \in {"PUT", "PATCH"}, k \in Keys, b \in RaceBodies :
       sess' = [sess EXCEPT ![s] = hei_update_load(hei, method, k, b)]
  /\ UNCHANGED <<hei, entry, req, resp, pre, user, call, given, boot, landed>>

Commit(s) ==
  /\ sess[s].phase = "loaded"
  /\ LET f == flush(hei, sess[s]) IN
       /\ Len(f.hei) <= MaxRows
       /\ hei' = f.hei
       /\ sess' = [sess EXCEPT
                     ![s].phase = IF f.ok THEN "committed" ELSE "done",
                     ![s].resp = IF f.ok THEN NoResp ELSE InternalServerError]
       /\ landed' = IF f.ok THEN Append(landed, s) ELSE landed
  /\ UNCHANGED <<entry, req, resp, pre, user, call, given, boot>>

Respond(s) ==
  /\ sess[s].phase = "committed"
  /\ sess' = [sess EXCEPT ![s].phase = "done",
                          ![s].resp = success_message(hei, sess[s])]
  /\ UNCHANGED <<hei, entry, req, resp, pre, user, call, given, boot, landed>>

\* both responses are delivered and the sessions removed
Teardown ==
  /\ \A s \in Sessions : sess[s].phase = "done"
  /\ sess' = [s \in Sessions |-> NoSession]
  /\ landed' = <<>>
  /\ UNCHANGED <<hei, entry, req, resp, pre, user, call, given, boot>>

RaceNext ==
  \/ \E s \in Sessions : BeginAddHei(s)
  \/ \E s \in Sessions : BeginHeiUpdate(s)
  \/ \E s \in Sessions : Commit(s)
  \/ \E s \in Sessions : Respond(s)
  \/ Teardown

----------------------------------------------------------------------------
(* The state machine *)

Init ==
  /\ hei = <<>>
  /\ entry = <<>>
  /\ req = NoReq
  /\ resp = NoResp
  /\ pre = NoPre
  /\ user = NoUser
  /\ call = NoCall
  /\ given = NotGiven
  /\ boot = NoBoot
  /\ sess = [s \in Sessions |-> NoSession]
  /\ landed = <<>>

\* the application answers request r with result res
Handle(r, res) ==
  /\ Len(res.hei) + Len(res.entry) <= MaxRows
  /\ \A j \in 1..Len(res.entry) : res.entry[j].entry_id \in EntryIds
  /\ req' = r
  /\ resp' = res.resp
  /\ hei' = res.hei
  /\ entry' = res.entry
  /\ pre' = [hei |-> hei, entry |-> entry]
  /\ UNCHANGED <<user, call, given, boot, sess, landed>>

Index ==
  /\ req = NoReq
  /\ Handle(Request("GET", "/", "", NoBody, NoArg, NoArg), index(hei, entry))

GetHeis ==
  /\ req = NoReq
  /\ \E p \in PageArgs, n \in PerPageArgs :
      Handle(Request("GET", "/hei", "", NoBody, p, n), get_heis(hei, entry, p, n))

GetHei ==
  /\ req = NoReq
  /\ \E k \in Keys :
      Handle(Request("GET", "/hei/", k, NoBody, NoArg, NoArg),
             get_hei_using_ukprn(hei, entry, k))

AddHei ==
  /\ req = NoReq
  /\ \E b \in HeiBodies :
      Handle(Request("POST", "/hei", "", b, NoArg, NoArg), add_hei(hei, entry, b))

DeleteHei ==
  /\ req = NoReq
  /\ \E k \in Keys :
      Handle(Request("DELETE", "/hei/", k, NoBody, NoArg, NoArg),
             delete_hei_using_ukprn(hei, entry, k))

HeiUpdate ==
  /\ req = NoReq
  /\ \E method \in {"PUT", "PATCH"}, k \in Keys, b \in HeiBodies :
      Handle(Request(method, "/hei/", k, b, NoArg, NoArg),
             hei_update(hei, entry, method, k, b))

GetEntries ==
  /\ req = NoReq
  /\ \E p \in PageArgs, n \in PerPageArgs :
      Handle(Request("GET", "/entry", "", NoBody, p, n),
             get_entries(hei, entry, p, n))

GetEntry ==
  /\ req = NoReq
  /\ \E k \in Keys :
      Handle(Request("GET", "/entry/", k, NoBody, NoArg, NoArg),
             get_entry(hei, entry, k))

AddEntry ==
  /\ req = NoReq
  /\ \E b \in EntryBodies :
      Handle(Request("POST", "/entry", "", b, NoArg, NoArg),
             add_entry(hei, entry, b))

DeleteEntry ==
  /\ req = NoReq
  /\ \E k \in Keys :
      Handle(Request("DELETE", "/entry/", k, NoBody, NoArg, NoArg),
             delete_entry(hei, entry, k))

EntryUpdate ==
  /\ req = NoReq
  /\ \E method \in {"PUT", "PATCH"}, k \in Keys, b \in EntryBodies :
      Handle(Request(method, "/entry/", k, b, NoArg, NoArg),
             entry_update(hei, entry, method, k, b))

\* the requests served while the store raises: both outcomes of int(), and
\* the bodies that differ in what the load makes of them
PageArgsStoreDown == {NoArg, "1", "x"}

HeiBodiesStoreDown ==
  {HeiBaseBody,
   [HeiBaseBody EXCEPT !.UKPRN = JInt(2)],
   [HeiBaseBody EXCEPT !.UKPRN = JAbsent, !.he_name = JAbsent],
   [HeiBaseBody EXCEPT !.region = JAbsent],
   [HeiBaseBody EXCEPT !.unknown = TRUE]}

EntryBodiesStoreDown ==
  {EntryBaseBody,
   [EntryBaseBody EXCEPT !.entry_id = JAbsent],
   [EntryBaseBody EXCEPT !.value = JAbsent],
   [EntryBaseBody EXCEPT !.unknown = TRUE]}

\* a request to a path without a route
RouteMiss ==
  /\ req = NoReq
  /\ \E method \in {"GET", "POST"} :
      Handle(Request(method, "/non-existent-page", "", NoBody, NoArg, NoArg),
             route_miss(hei, entry))

\* a request to a route with a method the route does not take: POST, PUT or
\* PATCH, DELETE to the list routes' twins
MethodNotAllowed ==
  /\ req = NoReq
  /\ \/ \E path \in {"/hei", "/entry"}, method \in {"PUT", "PATCH", "DELETE"} :
          Handle(Request(method, path, "", NoBody, NoArg, NoArg),
                 method_not_allowed(hei, entry))
     \/ \E path \in {"/hei/", "/entry/"}, k \in Keys :
          Handle(Request("POST", path, k, NoBody, NoArg, NoArg),
                 method_not_allowed(hei, entry))

GetHeisQueryRaises ==
  /\ req = NoReq
  /\ \E p \in PageArgsStoreDown, n \in PageArgsStoreDown :
      Handle(StoreDown(Request("GET", "/hei", "", NoBody, p, n)),
             get_heis_query_raises(hei, entry, p, n))

GetEntriesQueryRaises ==
  /\ req = NoReq
  /\ \E p \in PageArgsStoreDown, n \in PageArgsStoreDown :
      Handle(StoreDown(Request("GET", "/entry", "", NoBody, p, n)),
             get_entries_query_raises(hei, entry, p, n))

AddHeiCommitRaises ==
  /\ req = NoReq
  /\ \E b \in HeiBodiesStoreDown :
      Handle(StoreDown(Request("POST", "/hei", "", b, NoArg, NoArg)),
             add_hei_commit_raises(hei, entry, b))

HeiUpdateCommitRaises ==
  /\ req = NoReq
  /\ \E method \in {"PUT", "PATCH"}, k \in Keys, b \in HeiBodiesStoreDown :
      Handle(StoreDown(Request(method, "/hei/", k, b, NoArg, NoArg)),
             hei_update_commit_raises(hei, entry, method, k, b))

AddEntryCommitRaises ==
  /\ req = NoReq
  /\ \E b \in EntryBodiesStoreDown :
      Handle(StoreDown(Request("POST", "/entry", "", b, NoArg, NoArg)),
             add_entry_commit_raises(hei, entry, b))

EntryUpdateCommitRaises ==
  /\ req = NoReq
  /\ \E method \in {"PUT", "PATCH"}, k \in Keys, b \in EntryBodiesStoreDown :
      Handle(StoreDown(Request(method, "/entry/", k, b, NoArg, NoArg)),
             entry_update_commit_raises(hei, entry, method, k, b))

\* the response reaches the client and the request context is torn down
Deliver ==
  /\ req # NoReq
  /\ req' = NoReq
  /\ resp' = NoResp
  /\ pre' = NoPre
  /\ UNCHANGED <<hei, entry, user, call, given, boot, sess, landed>>

Next ==
  \/ Index
  \/ GetHeis
  \/ GetHei
  \/ AddHei
  \/ DeleteHei
  \/ HeiUpdate
  \/ GetEntries
  \/ GetEntry
  \/ AddEntry
  \/ DeleteEntry
  \/ EntryUpdate
  \/ RouteMiss
  \/ MethodNotAllowed
  \/ GetHeisQueryRaises
  \/ GetEntriesQueryRaises
  \/ AddHeiCommitRaises
  \/ HeiUpdateCommitRaises
  \/ AddEntryCommitRaises
  \/ EntryUpdateCommitRaises
  \/ Deliver

Spec == Init /\ [][Next]_vars

\* the User object alone, called in any order
UserSpec == Init /\ [][UserNext]_vars

\* one database file across starts of the application, with requests
\* served in between
SeedSpec == Init /\ [][SeedNext]_vars

\* two write requests on the HEI routes, their steps interleaved
RaceSpec == Init /\ [][RaceNext]_vars

----------------------------------------------------------------------------
(* Properties *)

\* the request being answered
\* a request of the given method and route, served with the store working
IsRequest(method, path) ==
  req.method = method /\ req.path = path /\ req.store = "up"

\* the positions of the rows of a table whose key reads as the path value K
HeiRowsAt(t, K) == {i \in 1..Len(t) : StrOfInt(t[i].UKPRN) = K}
EntryRowsAt(t, K) == {i \in 1..Len(t) : StrOfInt(t[i].entry_id) = K}

StoreUnchanged == hei = pre.hei /\ entry = pre.entry

\* C1: a PATCH to /hei/K or /entry/K when no row has key K responds 404 with
\* "No result found for <key-field>: K" whatever the body is, and changes no
\* table.
C1_PatchMissingKeyIs404 ==
  /\ (IsRequest("PATCH", "/hei/") /\ HeiRowsAt(pre.hei, req.key) = {})
       => /\ resp = Message(404, <<"No result found for UKPRN: ", req.key>>)
          /\ StoreUnchanged
  /\ (IsRequest("PATCH", "/entry/") /\ EntryRowsAt(pre.entry, req.key) = {})
       => /\ resp = Message(404, <<"No result found for entry_id: ", req.key>>)
          /\ StoreUnchanged

\* a PATCH with a body that no mode of validation accepts was answered 404
\* while other rows were stored
C1_Witness ==
  /\ IsRequest("PATCH", "/hei/")
  /\ req.body.unknown
  /\ pre.hei # <<>>
  /\ HeiRowsAt(pre.hei, req.key) = {}
  /\ resp.status = 404

\* C2: a PUT to /hei/K or /entry/K never responds 404: its status is always
\* one of 200, 400 and 500.
C2_PutNever404 ==
  (IsRequest("PUT", "/hei/") \/ IsRequest("PUT", "/entry/"))
    => resp.status \in {200, 400, 500}

\* a PUT to a key that no row has was answered 200
C2_Witness ==
  /\ IsRequest("PUT", "/entry/")
  /\ EntryRowsAt(pre.entry, req.key) = {}
  /\ resp.status = 200


\* a submitted JSON value and the value a response carries for the same field
\* agree: equal, or the submitted one is the decimal literal of the integer
SameValue(submitted, returned) ==
  IF submitted.t = "str" /\ returned.t = "int"
  THEN submitted.s = StrOfInt(returned.i)
  ELSE submitted = returned

\* every key the body carries has the body's value in the serialised entity
HeiCarries(dumped, b) ==
  /\ b.UKPRN.t # "absent" => SameValue(b.UKPRN, dumped.UKPRN)
  /\ b.he_name.t # "absent" => SameValue(b.he_name, dumped.he_name)
  /\ b.region.t # "absent" => SameValue(b.region, dumped.region)
  /\ b.lat.t # "absent" => SameValue(b.lat, dumped.lat)
  /\ b.lon.t # "absent" => SameValue(b.lon, dumped.lon)

EntryCarries(dumped, b) ==
  /\ b.entry_id.t # "absent" => SameValue(b.entry_id, dumped.entry_id)
  /\ b.academic_year.t # "absent"
       => SameValue(b.academic_year, dumped.academic_year)
  /\ b.classification.t # "absent"
       => SameValue(b.classification, dumped.classification)
  /\ b.category_marker.t # "absent"
       => SameValue(b.category_marker, dumped.category_marker)
  /\ b.category.t # "absent" => SameValue(b.category, dumped.category)
  /\ b.value.t # "absent" => SameValue(b.value, dumped.value)
  /\ b.UKPRN.t # "absent" => SameValue(b.UKPRN, dumped.UKPRN)
  /\ b.he_name.t # "absent" => SameValue(b.he_name, dumped.he_name)

\* the response a GET of /hei/K or /entry/K would get from the store as it is
GetHeiNow(K) == get_hei_using_ukprn(hei, entry, K).resp
GetEntryNow(K) == get_entry(hei, entry, K).resp

\* C3: a PUT to /hei/K or /entry/K when no row has key K, with a body that
\* passes full-mode validation, responds 200 and creates the resource under
\* the path key K, so that a GET of K that follows returns 200 with that
\* resource.
C3_PutCreatesUnderPathKey ==
  /\ (/\ IsRequest("PUT", "/hei/")
      /\ HeiRowsAt(pre.hei, req.key) = {}
      /\ HEISchema_valid(req.body, FALSE))
       => /\ resp.status = 200
          /\ GetHeiNow(req.key).status = 200
          /\ GetHeiNow(req.key).kind = "entity"
          /\ HeiCarries(GetHeiNow(req.key).rows[1], req.body)
  /\ (/\ IsRequest("PUT", "/entry/")
      /\ EntryRowsAt(pre.entry, req.key) = {}
      /\ EntrySchema_valid(req.body, FALSE))
       => /\ resp.status = 200
          /\ GetEntryNow(req.key).status = 200
          /\ GetEntryNow(req.key).kind = "entity"
          /\ EntryCarries(GetEntryNow(req.key).rows[1], req.body)

\* C4: for every payload that passes full-mode validation, in every store
\* state, POST /hei (POST /entry) responds 200 with the "added successfully"
\* message and a GET by the payload's key that follows responds 200 with an
\* entity whose fields equal the submitted values.
C4_PostThenGet ==
  /\ (IsRequest("POST", "/hei") /\ HEISchema_valid(req.body, FALSE))
       => LET K == StrOfInt(IntegerValue(req.body.UKPRN))
          IN  /\ resp = Message(200, <<"HEI ", req.body.he_name.s,
                                       " added successfully">>)
              /\ GetHeiNow(K).status = 200
              /\ GetHeiNow(K).kind = "entity"
              /\ HeiCarries(GetHeiNow(K).rows[1], req.body)
  /\ (/\ IsRequest("POST", "/entry")
      /\ EntrySchema_valid(req.body, FALSE)
      /\ req.body.entry_id.t # "absent")
       => LET K == StrOfInt(IntegerValue(req.body.entry_id))
          IN  /\ resp = Message(200, <<"Entry ", K, " added successfully">>)
              /\ GetEntryNow(K).status = 200
              /\ GetEntryNow(K).kind = "entity"
              /\ EntryCarries(GetEntryNow(K).rows[1], req.body)

\* C5: for every key K that a GET by key resolves, DELETE /hei/K (/entry/K)
\* followed by a GET of K returns 404 "No result found for <key-field>: K".
C5_DeleteThenGet ==
  /\ (/\ IsRequest("DELETE", "/hei/")
      /\ get_hei_using_ukprn(pre.hei, pre.entry, req.key).resp.status = 200)
       => GetHeiNow(req.key)
            = Message(404, <<"No result found for UKPRN: ", req.key>>)
  /\ (/\ IsRequest("DELETE", "/entry/")
      /\ get_entry(pre.hei, pre.entry, req.key).resp.status = 200)
       => GetEntryNow(req.key)
            = Message(404, <<"No result found for entry_id: ", req.key>>)


\* row new is row old with exactly the keys of body b applied
HeiPatched(old, new, b) ==
  /\ HeiCarries(HEISchema_dump(new), b)
  /\ b.UKPRN.t = "absent" => new.UKPRN = old.UKPRN
  /\ b.he_name.t = "absent" => new.he_name = old.he_name
  /\ b.region.t = "absent" => new.region = old.region
  /\ b.lat.t = "absent" => new.lat = old.lat
  /\ b.lon.t = "absent" => new.lon = old.lon

EntryPatched(old, new, b) ==
  /\ EntryCarries(EntrySchema_dump(new), b)
  /\ b.entry_id.t = "absent" => new.entry_id = old.entry_id
  /\ b.academic_year.t = "absent" => new.academic_year = old.academic_year
  /\ b.classification.t = "absent" => new.classification = old.classification
  /\ b.category_marker.t = "absent"
       => new.category_marker = old.category_marker
  /\ b.category.t = "absent" => new.category = old.category
  /\ b.value.t = "absent" => new.value = old.value
  /\ b.UKPRN.t = "absent" => new.UKPRN = old.UKPRN
  /\ b.he_name.t = "absent" => new.he_name = old.he_name

\* C6: a successful PATCH applies only the fields present in the body to the
\* found row: every field absent from the body keeps its prior value, every
\* field present has the body's value, and every other row of the store is
\* unchanged.
C6_PatchFrame ==
  /\ (IsRequest("PATCH", "/hei/") /\ resp.status = 200)
       => \E i \in 1..Len(pre.hei) :
            /\ HeiRowsAt(pre.hei, req.key) = {i}
            /\ Len(hei) = Len(pre.hei)
            /\ HeiPatched(pre.hei[i], hei[i], req.body)
            /\ \A j \in 1..Len(hei) : j # i => hei[j] = pre.hei[j]
            /\ entry = pre.entry
  /\ (IsRequest("PATCH", "/entry/") /\ resp.status = 200)
       => \E i \in 1..Len(pre.entry), k \in 1..Len(entry) :
            /\ EntryRowsAt(pre.entry, req.key) = {i}
            /\ Len(entry) = Len(pre.entry)
            /\ EntryPatched(pre.entry[i], entry[k], req.body)
            /\ {entry[j] : j \in 1..Len(entry) \ {k}}
                 = {pre.entry[j] : j \in 1..Len(pre.entry) \ {i}}
            /\ hei = pre.hei

\* a PATCH without lat changed the region of a row whose lat is set, beside
\* another row
C6_Witness ==
  /\ IsRequest("PATCH", "/hei/")
  /\ resp.status = 200
  /\ req.body.lat.t = "absent"
  /\ req.body.region.t = "str"
  /\ Len(pre.hei) = 2
  /\ \E i \in 1..Len(hei) :
       /\ hei[i].lat = "L1"
       /\ pre.hei[i].lat = "L1"
       /\ hei[i].region # pre.hei[i].region


\* a JSON value of the wrong type for an integer or a string field
WrongType(j, kind) ==
  IF kind = "int" THEN j.t = "str" /\ j.s \notin NumericStrs ELSE j.t = "int"

\* a body that fails validation for one of three reasons:
\* an unknown key, a wrongly typed value, or (in full mode) a required key
\* missing
HeiBodyFails(b, full) ==
  \/ b.unknown
  \/ WrongType(b.UKPRN, "int")
  \/ \E j \in {b.he_name, b.region, b.lat, b.lon} : WrongType(j, "str")
  \/ full /\ \E j \in {b.UKPRN, b.he_name, b.region} : j.t = "absent"

EntryBodyFails(b, full) ==
  \/ b.unknown
  \/ WrongType(b.entry_id, "int")
  \/ WrongType(b.UKPRN, "int")
  \/ \E j \in {b.academic_year, b.classification, b.category_marker,
               b.category, b.value, b.he_name} : WrongType(j, "str")
  \/ full /\ \E j \in {b.academic_year, b.classification, b.category_marker,
                       b.category, b.value, b.UKPRN, b.he_name} :
               j.t = "absent"

InvalidHeiWrite ==
  /\ \/ req.path = "/hei" /\ req.method = "POST"
     \/ req.path = "/hei/" /\ req.method \in {"PUT", "PATCH"}
  /\ HeiBodyFails(req.body, req.method # "PATCH")

InvalidEntryWrite ==
  /\ \/ req.path = "/entry" /\ req.method = "POST"
     \/ req.path = "/entry/" /\ req.method \in {"PUT", "PATCH"}
  /\ EntryBodyFails(req.body, req.method # "PATCH")

\* C7 as stated: a POST, PATCH or PUT whose body fails schema validation
\* responds 400 with "The <resource> details failed validation." and leaves
\* the store exactly as it was.
C7_InvalidBodyIs400 ==
  /\ InvalidHeiWrite
       => /\ resp = Message(400, <<"The HEI details failed validation.">>)
          /\ StoreUnchanged
  /\ InvalidEntryWrite
       => /\ resp = Message(400, <<"The entry details failed validation.">>)
          /\ StoreUnchanged

\* C7: a POST, PATCH or PUT whose body fails schema validation leaves the
\* store exactly as it was.  A POST responds 400 with "The <resource> details
\* failed validation."; so does a PUT or PATCH unless the lookup by the path
\* key ends the request before the body is validated: a PATCH to a key that
\* no row has responds 404 "No result found for <key-field>: K", and a lookup
\* that finds several rows ends in an unhandled error (status 500).
C7_InvalidBodyLeavesStore ==
  /\ InvalidHeiWrite
       => /\ StoreUnchanged
          /\ CASE req.method # "POST"
                    /\ Cardinality(HeiRowsAt(pre.hei, req.key)) > 1 ->
                    resp.status = 500
               [] req.method = "PATCH" /\ HeiRowsAt(pre.hei, req.key) = {} ->
                    resp = Message(404, <<"No result found for UKPRN: ",
                                          req.key>>)
               [] OTHER ->
                    resp = Message(400,
                                   <<"The HEI details failed validation.">>)
  /\ InvalidEntryWrite
       => /\ StoreUnchanged
          /\ CASE req.method # "POST"
                    /\ Cardinality(EntryRowsAt(pre.entry, req.key)) > 1 ->
                    resp.status = 500
               [] req.method = "PATCH"
                    /\ EntryRowsAt(pre.entry, req.key) = {} ->
                    resp = Message(404, <<"No result found for entry_id: ",
                                          req.key>>)
               [] OTHER ->
                    resp = Message(400,
                                   <<"The entry details failed validation.">>)

\* a PUT that lacks a required key was answered 400 while a row was stored
\* under its path key
C7_Witness ==
  /\ IsRequest("PUT", "/hei/")
  /\ ~req.body.unknown
  /\ req.body.region.t = "absent"
  /\ Cardinality(HeiRowsAt(pre.hei, req.key)) = 1
  /\ resp.status = 400
  /\ hei = pre.hei


\* the rows a GET list of the present store returns for page p of size n
HeiPage(p, n) == get_heis(hei, entry, StrOfInt(p), StrOfInt(n)).resp.rows
EntryPage(p, n) == get_entries(hei, entry, StrOfInt(p), StrOfInt(n)).resp.rows

\* page p of size n (just returned as rows) and page p + 1 (next) are adjacent
\* slices of the full list, and pages 1, 2, 3 of size n make up the full list
\* as far as 3 * n rows reach
PagesTile(rows, next, full, p, n, p1, p2, p3) ==
  /\ rows \o next = SubSeq(full, (p - 1) * n + 1, Min((p + 1) * n, Len(full)))
  /\ Len(rows) = Min(n, Len(full) - (p - 1) * n) \/ rows = <<>>
  /\ p1 \o p2 \o p3 = SubSeq(full, 1, Min(3 * n, Len(full)))
  /\ Len(full) <= 3 * n => p1 \o p2 \o p3 = full

\* C8: with the store unchanged between the calls, GET list with page=p and
\* then page=p+1 of the same size N returns two disjoint, contiguous slices,
\* and concatenating pages 1, 2, 3 of size N yields the full list of rows in
\* store order, with no row skipped or repeated.
C8_PagesConcatenate ==
  /\ (/\ IsRequest("GET", "/hei")
      /\ req.page \in {"1", "2"}
      /\ req.per_page \in {"1", "2"})
       => LET p == IntOfStr(req.page)
              n == IntOfStr(req.per_page)
          IN  /\ StoreUnchanged
              /\ PagesTile(resp.rows, HeiPage(p + 1, n),
                           HEISchema_dump_many(hei), p, n,
                           HeiPage(1, n), HeiPage(2, n), HeiPage(3, n))
  /\ (/\ IsRequest("GET", "/entry")
      /\ req.page \in {"1", "2"}
      /\ req.per_page \in {"1", "2"})
       => LET p == IntOfStr(req.page)
              n == IntOfStr(req.per_page)
          IN  /\ StoreUnchanged
              /\ PagesTile(resp.rows, EntryPage(p + 1, n),
                           EntrySchema_dump_many(entry), p, n,
                           EntryPage(1, n), EntryPage(2, n), EntryPage(3, n))

\* page 1 of size 1 of a table of two rows was returned, and page 2 holds the
\* other row
C8_Witness ==
  /\ IsRequest("GET", "/hei")
  /\ req.page = "1"
  /\ req.per_page = "1"
  /\ Len(hei) = 2
  /\ resp.rows = <<HEISchema_dump(hei[1])>>
  /\ HeiPage(2, 1) = <<HEISchema_dump(hei[2])>>

\* the rows at positions offset + 1 .. offset + n of the dumped table, as far
\* as the table reaches
RowsFrom(rows, full, offset, n) ==
  /\ Len(rows) = IF Len(full) - offset >= n THEN n
                 ELSE IF Len(full) > offset THEN Len(full) - offset ELSE 0
  /\ \A i \in 1..Len(rows) : rows[i] = full[offset + i]

\* C9: GET /hei and GET /entry default to page = 1 and per_page = 10 when the
\* parameters are absent, and for every page >= 1 and per_page >= 1 return,
\* with offset = (page - 1) * per_page, the rows at positions offset + 1 ..
\* offset + per_page of the store order: exactly per_page rows when that many
\* remain, fewer (possibly none) at the end of the table.
C9_PageWindow ==
  (/\ req.method = "GET"
   /\ req.path \in {"/hei", "/entry"}
   /\ req.store = "up"
   /\ req.page \in {NoArg, "1", "2", "3"}
   /\ req.per_page \in {NoArg, "1", "2"})
    => LET page == IF req.page = NoArg THEN 1 ELSE IntOfStr(req.page)
           per_page == IF req.per_page = NoArg THEN 10
                       ELSE IntOfStr(req.per_page)
           full == IF req.path = "/hei" THEN HEISchema_dump_many(pre.hei)
                   ELSE EntrySchema_dump_many(pre.entry)
       IN  /\ resp.status = 200
           /\ resp.kind = "list"
           /\ RowsFrom(resp.rows, full, (page - 1) * per_page, per_page)
           /\ StoreUnchanged

\* page 2 of size 1 of a table of two rows returned the second row alone
C9_Witness ==
  /\ IsRequest("GET", "/hei")
  /\ req.page = "2"
  /\ req.per_page = "1"
  /\ Len(pre.hei) = 2
  /\ resp.rows = <<HEISchema_dump(pre.hei[2])>>


\* C10: GET /hei/K and GET /entry/K respond 404 with "No result found for
\* <key-field>: K" when no row matches K, and otherwise respond 200 with the
\* serialized single entity whose key field equals K.
C10_GetOne ==
  /\ IsRequest("GET", "/hei/")
       => /\ StoreUnchanged
          /\ IF HeiRowsAt(pre.hei, req.key) = {}
             THEN resp = Message(404, <<"No result found for UKPRN: ",
                                        req.key>>)
             ELSE /\ resp.status = 200
                  /\ resp.kind = "entity"
                  /\ \E i \in HeiRowsAt(pre.hei, req.key) :
                       resp.rows = <<HEISchema_dump(pre.hei[i])>>
  /\ IsRequest("GET", "/entry/")
       => /\ StoreUnchanged
          /\ IF EntryRowsAt(pre.entry, req.key) = {}
             THEN resp = Message(404, <<"No result found for entry_id: ",
                                        req.key>>)
             ELSE /\ resp.status = 200
                  /\ resp.kind = "entity"
                  /\ \E i \in EntryRowsAt(pre.entry, req.key) :
                       resp.rows = <<EntrySchema_dump(pre.entry[i])>>


\* table t is table old without its row at position i
RowRemoved(old, t, i) ==
  /\ Len(t) = Len(old) - 1
  /\ \A j \in 1..Len(t) : t[j] = IF j < i THEN old[j] ELSE old[j + 1]

\* the store raises while DELETE /hei/K runs: the lookup finds several rows,
\* or an Entry row references the HEI found
HeiDeleteRaises(K) ==
  \/ Cardinality(HeiRowsAt(pre.hei, K)) > 1
  \/ \E i \in HeiRowsAt(pre.hei, K), j \in 1..Len(pre.entry) :
       /\ pre.entry[j].UKPRN = pre.hei[i].UKPRN
       /\ pre.entry[j].he_name = pre.hei[i].he_name

\* C11: DELETE /hei/K and DELETE /entry/K: when the row is found it is
\* removed and the response is 200 with "<Resource> K deleted successfully";
\* when it is not found, or when the store raises during the lookup, delete
\* or commit, the response is 404 with "<Resource> with <key-field> K not
\* found." and nothing is removed: the same response for both causes.
C11_Delete ==
  /\ IsRequest("DELETE", "/hei/")
       => IF HeiRowsAt(pre.hei, req.key) = {} \/ HeiDeleteRaises(req.key)
          THEN /\ resp = Message(404, <<"HEI with UKPRN ", req.key,
                                        " not found.">>)
               /\ StoreUnchanged
          ELSE /\ resp = Message(200, <<"HEI ", req.key,
                                        " deleted successfully">>)
               /\ \E i \in HeiRowsAt(pre.hei, req.key) :
                    RowRemoved(pre.hei, hei, i)
               /\ entry = pre.entry
  /\ IsRequest("DELETE", "/entry/")
       => IF EntryRowsAt(pre.entry, req.key) = {}
          THEN /\ resp = Message(404, <<"Entry with id ", req.key,
                                        " not found.">>)
               /\ StoreUnchanged
          ELSE /\ resp = Message(200, <<"Entry ", req.key,
                                        " deleted successfully">>)
               /\ \E i \in EntryRowsAt(pre.entry, req.key) :
                    RowRemoved(pre.entry, entry, i)
               /\ hei = pre.hei

\* the second of two HEI rows was deleted and the first remains
C11_Witness ==
  /\ IsRequest("DELETE", "/hei/")
  /\ resp.status = 200
  /\ Len(pre.hei) = 2
  /\ HeiRowsAt(pre.hei, req.key) = {2}
  /\ hei = <<pre.hei[1]>>


\* a body that a load accepts: no unknown key, no wrongly typed value, no
\* null for a NOT NULL column and, in full mode, every required key
HeiBodyLoads(b, full) ==
  /\ ~HeiBodyFails(b, full)
  /\ \A j \in {b.UKPRN, b.he_name, b.region} : j.t # "null"

EntryBodyLoads(b, full) ==
  /\ ~EntryBodyFails(b, full)
  /\ \A j \in {b.entry_id, b.academic_year, b.classification,
               b.category_marker, b.category, b.value, b.UKPRN, b.he_name} :
       j.t # "null"

\* the primary key that a PATCH with body b gives the HEI row old
HeiPatchedKey(old, b) ==
  [UKPRN |-> IF b.UKPRN.t = "absent" THEN old.UKPRN
             ELSE IF b.UKPRN.t = "int" THEN b.UKPRN.i ELSE IntOfStr(b.UKPRN.s),
   he_name |-> IF b.he_name.t = "absent" THEN old.he_name ELSE b.he_name.s]

\* the commit of the PATCH in progress violates a primary key: the body moves
\* the one row found under the path key onto the key of another row
HeiPatchCollides ==
  /\ IsRequest("PATCH", "/hei/")
  /\ HeiBodyLoads(req.body, FALSE)
  /\ \E i \in 1..Len(pre.hei) :
       /\ HeiRowsAt(pre.hei, req.key) = {i}
       /\ \E j \in 1..Len(pre.hei) \ {i} :
            LET k == HeiPatchedKey(pre.hei[i], req.body)
            IN  k.UKPRN = pre.hei[j].UKPRN /\ k.he_name = pre.hei[j].he_name

EntryPatchCollides ==
  /\ IsRequest("PATCH", "/entry/")
  /\ EntryBodyLoads(req.body, FALSE)
  /\ req.body.entry_id.t = "int"
  /\ \E i \in 1..Len(pre.entry) :
       /\ EntryRowsAt(pre.entry, req.key) = {i}
       /\ \E j \in 1..Len(pre.entry) \ {i} :
            pre.entry[j].entry_id = req.body.entry_id.i

\* the list query of the request in progress raises
ListQueryRaises ==
  /\ req.method = "GET"
  /\ req.path \in {"/hei", "/entry"}
  /\ req.store = "down"
  /\ req.page \in {NoArg, "0", "1", "2", "3"}
  /\ req.per_page \in {NoArg, "0", "1", "2"}

\* the request in progress gets as far as its commit, which raises: the body
\* loads and, for PUT and PATCH, the lookup by the path key has not ended the
\* request
CommitOfWriteRaises ==
  /\ req.store = "down"
  /\ \/ /\ req.path = "/hei" /\ req.method = "POST"
        /\ HeiBodyLoads(req.body, TRUE)
     \/ /\ req.path = "/entry" /\ req.method = "POST"
        /\ EntryBodyLoads(req.body, TRUE)
     \/ /\ req.path = "/hei/" /\ req.method = "PUT"
        /\ HeiBodyLoads(req.body, TRUE)
        /\ Cardinality(HeiRowsAt(pre.hei, req.key)) <= 1
     \/ /\ req.path = "/hei/" /\ req.method = "PATCH"
        /\ HeiBodyLoads(req.body, FALSE)
        /\ Cardinality(HeiRowsAt(pre.hei, req.key)) = 1
     \/ /\ req.path = "/entry/" /\ req.method = "PUT"
        /\ EntryBodyLoads(req.body, TRUE)
     \/ /\ req.path = "/entry/" /\ req.method = "PATCH"
        /\ EntryBodyLoads(req.body, FALSE)
        /\ Cardinality(EntryRowsAt(pre.entry, req.key)) = 1

\* C12: a store-level failure during a list query, during the add/commit of
\* a POST, or during the merge/commit of a PATCH or PUT is answered with
\* status 500 and exactly the body {"message": "An Internal Server Error
\* occurred. Please try again later."}; the text of the internal error is not
\* in the response, and nothing is written.
C12_StoreFailureIs500 ==
  (\/ ListQueryRaises
   \/ CommitOfWriteRaises
   \/ HeiPatchCollides
   \/ EntryPatchCollides)
    => /\ resp.status = 500
       /\ resp.kind = "message"
       /\ resp.msg = <<"An Internal Server Error occurred. Please try again later.">>
       /\ StoreUnchanged

\* a PATCH that moves one HEI row onto the key of the other was answered 500
C12_Witness ==
  /\ HeiPatchCollides
  /\ resp.status = 500
  /\ hei = pre.hei


\* the request in progress went to one of the ten HEI/Entry handlers
ResourceRequest == req.path \in {"/hei", "/hei/", "/entry", "/entry/"}

\* C13: each resource handler catches store and validation exceptions
\* locally: no SQLAlchemy error and no ValidationError raised inside any of
\* the ten HEI/Entry handlers propagates out of the handler.
C13_NothingPropagates ==
  (ResourceRequest /\ resp.kind = "unhandled")
    => resp.msg \notin {<<"MultipleResultsFound">>, <<"ValidationError">>}

\* the key a body carries, as the text of a path value
BodyKey(j) == IF j.t = "int" THEN StrOfInt(j.i) ELSE j.s

\* C14: when a PUT finds a row under path key K and the body carries a
\* different key K', the new key wins: after the successful PUT the resource
\* is stored under K' with the body's field values and no row remains stored
\* under the path key K.
C14_PutNewKeyWins ==
  /\ (/\ IsRequest("PUT", "/hei/")
      /\ HeiRowsAt(pre.hei, req.key) # {}
      /\ HeiBodyLoads(req.body, TRUE)
      /\ BodyKey(req.body.UKPRN) # req.key
      /\ resp.status = 200)
       => /\ HeiRowsAt(hei, req.key) = {}
          /\ \E i \in HeiRowsAt(hei, BodyKey(req.body.UKPRN)) :
               HeiCarries(HEISchema_dump(hei[i]), req.body)
  /\ (/\ IsRequest("PUT", "/entry/")
      /\ EntryRowsAt(pre.entry, req.key) # {}
      /\ EntryBodyLoads(req.body, TRUE)
      /\ req.body.entry_id.t # "absent"
      /\ BodyKey(req.body.entry_id) # req.key
      /\ resp.status = 200)
       => /\ EntryRowsAt(entry, req.key) = {}
          /\ \E i \in EntryRowsAt(entry, BodyKey(req.body.entry_id)) :
               EntryCarries(EntrySchema_dump(entry[i]), req.body)

\* C15: a successful PUT on an existing key is a full replace: afterwards
\* every field of the stored row equals the body's value for it, and an
\* optional field (HEI lat, lon) that the body omits no longer holds its
\* previous value.
C15_PutFullReplace ==
  (/\ IsRequest("PUT", "/hei/")
   /\ HeiBodyLoads(req.body, TRUE)
   /\ BodyKey(req.body.UKPRN) = req.key
   /\ HeiRowsAt(pre.hei, req.key) # {}
   /\ resp.status = 200)
    => \E i \in HeiRowsAt(hei, req.key) :
         /\ HeiCarries(HEISchema_dump(hei[i]), req.body)
         /\ req.body.lat.t = "absent" => hei[i].lat = NULL
         /\ req.body.lon.t = "absent" => hei[i].lon = NULL

\* C16: the 200 response of a successful PATCH or PUT is "<Resource> with
\* <key-field> <key> updated successfully" where <key> is the key of the row
\* as stored after the update (the body's key when it changed the key), not
\* necessarily the path value.
C16_UpdateMessageKey ==
  /\ (req.path = "/hei/" /\ req.method \in {"PUT", "PATCH"}
      /\ resp.status = 200)
       => \E i \in 1..Len(hei) :
            /\ resp = Message(200, <<"HEI with UKPRN ", StrOfInt(hei[i].UKPRN),
                                     " updated successfully">>)
            /\ HeiCarries(HEISchema_dump(hei[i]), req.body)
  /\ (req.path = "/entry/" /\ req.method \in {"PUT", "PATCH"}
      /\ resp.status = 200)
       => \E i \in 1..Len(entry) :
            /\ resp = Message(200, <<"Entry with entry_id ",
                                     StrOfInt(entry[i].entry_id),
                                     " updated successfully">>)
            /\ EntryCarries(EntrySchema_dump(entry[i]), req.body)


\* C17: in every reachable store state every stored Entry references the
\* (UKPRN, he_name) pair of an HEI row that exists.
C17_EntriesReferenceHei ==
  \A j \in 1..Len(entry) :
    \E i \in 1..Len(hei) :
      hei[i].UKPRN = entry[j].UKPRN /\ hei[i].he_name = entry[j].he_name

\* the request in progress met an HTTP-layer error: no route for the path,
\* or a route that does not take the method
HttpLayerError ==
  \/ req.path = "/non-existent-page"
  \/ req.path \in {"/hei", "/entry"} /\ req.method \in {"PUT", "PATCH", "DELETE"}
  \/ req.path \in {"/hei/", "/entry/"} /\ req.method = "POST"

\* C18: any HTTP-layer error of the running application (an unrouted path
\* giving 404, a method not allowed giving 405) is answered with the error's
\* status code and a JSON body with the keys code, name and description,
\* never the default HTML page.
C18_HttpErrorsAreJson ==
  HttpLayerError
    => /\ resp.status \in {404, 405}
       /\ resp.kind = "http_json"
       /\ Len(resp.msg) = 2

\* a non-HTTP exception escapes the handler of the request in progress: int()
\* of a non-numeric page or per_page, or scalar_one() finding several rows in
\* a get-by-key or update lookup
ExceptionEscapes ==
  \/ /\ req.method = "GET"
     /\ req.path \in {"/hei", "/entry"}
     /\ "x" \in {req.page, req.per_page}
  \/ /\ req.path = "/hei/"
     /\ req.method \in {"GET", "PUT", "PATCH"}
     /\ Cardinality(HeiRowsAt(pre.hei, req.key)) > 1

\* C19: any non-HTTP exception that escapes a route handler of the running
\* application is answered with status 500 and the JSON body
\* {"error": "<exception message>"}.
C19_EscapedExceptionIsJson ==
  ExceptionEscapes
    => /\ resp.status = 500
       /\ resp.kind = "error"
       /\ Len(resp.msg) = 1


\* C20: User.set_password(p) stores only a salted one-way hash: afterwards
\* password_hash is set and differs from p, and check_password(q) returns
\* true exactly when q equals the p given to the most recent set_password.
C20_PasswordHash ==
  /\ given # NotGiven
       => /\ user.password_hash # NoHash
          /\ user.password_hash # <<given>>
          /\ \E salt \in Salts :
               user.password_hash = <<"scrypt", salt, "H", salt, given>>
  /\ (call.op = "check_password" /\ given # NotGiven)
       => call.ret = IF call.arg = given THEN "True" ELSE "False"

\* after set_password with a password other than the constructor's, a check
\* of the constructor's password returned false
C20_Witness ==
  /\ call.op = "check_password"
  /\ given # NotGiven
  /\ given # user.password
  /\ call.arg = user.password
  /\ call.ret = "False"

\* C21: over any sequence of application starts on one database file with
\* no row deleted through the API in between, each table is seeded by
\* exactly one start: every later start inserts nothing
C21_SeededOnce ==
  (boot.starts >= 1 /\ ~boot.deleted) =>
     /\ boot.hei_loads = 1
     /\ boot.entry_loads = 1

\* a second start after rows were added through the API, none deleted
C21_Witness ==
  /\ boot.starts >= 2
  /\ ~boot.deleted
  /\ boot.hei_loads = 1
  /\ boot.entry_loads = 1
  /\ Len(hei) > Len(hei_data)
  /\ Len(entry) > Len(entry_data)

\* the sessions whose attempt to commit the store refused
CommitRejected(s) ==
  /\ sess[s].phase = "done"
  /\ sess[s].row # BlankHEI
  /\ \A k \in 1..Len(landed) : landed[k] # s

\* both requests committed a row under one and the same key and were answered
BothLanded ==
  /\ \A s \in Sessions : sess[s].phase = "done"
  /\ Len(landed) = 2
  /\ HEI_same_pk(sess[1].row, sess[2].row)

\* C22: of two concurrent writes to the same key, the stored row after both
\* finish is the one written by the request whose commit landed last, and a
\* request whose commit the store rejects is answered with the generic 500
\* envelope, never 200
C22_LastCommitWins ==
  /\ BothLanded => \E j \in 1..Len(hei) : hei[j] = sess[landed[2]].row
  /\ \A s \in Sessions : CommitRejected(s) => sess[s].resp = InternalServerError

\* C23: in every reachable store state at most one HEI row has any given
\* UKPRN, so a lookup by UKPRN finds no row or exactly one
C23_UkprnUnique ==
  \A i, j \in 1..Len(hei) : hei[i].UKPRN = hei[j].UKPRN => i = j

\* the rows of table hei whose primary key is the one body b carries
HeiRowsOfBody(t, b) ==
  {i \in 1..Len(t) : /\ t[i].UKPRN = IntegerValue(b.UKPRN)
                     /\ t[i].he_name = b.he_name.s}

\* the rows of table entry whose primary key is the one body b carries
EntryRowsOfBody(t, b) ==
  IF b.entry_id.t = "absent" THEN {}
  ELSE {i \in 1..Len(t) : t[i].entry_id = IntegerValue(b.entry_id)}

\* C24: a POST /hei or POST /entry whose body carries the primary key of a
\* row that exists is a store failure: it responds 500 with the generic
\* message and the row keeps all its field values
C24_PostExistingKeyIs500 ==
  /\ (/\ IsRequest("POST", "/hei")
      /\ HeiBodyLoads(req.body, TRUE)
      /\ HeiRowsOfBody(pre.hei, req.body) # {})
       => resp = InternalServerError /\ StoreUnchanged
  /\ (/\ IsRequest("POST", "/entry")
      /\ EntryBodyLoads(req.body, TRUE)
      /\ EntryRowsOfBody(pre.entry, req.body) # {})
       => resp = InternalServerError /\ StoreUnchanged

\* a page or per_page value that int() refuses
NotIntegerLiteral(arg) == arg # NoArg /\ arg \notin NumericStrs

ListRequestBadArg ==
  /\ req.method = "GET"
  /\ req.path \in {"/hei", "/entry"}
  /\ NotIntegerLiteral(req.page) \/ NotIntegerLiteral(req.per_page)

\* C25: GET /hei or GET /entry with a page or per_page that is not an
\* integer literal fails: the response is never 200; no query is issued, so
\* the response is the same whether or not the store would have raised and
\* the tables are untouched; and it is the escaped ValueError, not the
\* handler's own 500 message
C25_BadPageFails ==
  ListRequestBadArg =>
     /\ resp.status # 200
     /\ resp # InternalServerError
     /\ resp.kind # "message"
     /\ resp = Unhandled("ValueError")
     /\ StoreUnchanged

\* page=x sent while the store refuses every query
C25_Witness ==
  /\ ListRequestBadArg
  /\ req.store = "down"
  /\ req.page = "x"
  /\ resp.status = 500

EntryIdsOf(t) == {t[j].entry_id : j \in 1..Len(t)}

\* C27: DELETE /hei/K never deletes Entry rows: the set of stored entry_ids
\* is the same before and after the request
C27_DeleteHeiKeepsEntries ==
  IsRequest("DELETE", "/hei/") =>
     /\ EntryIdsOf(entry) = EntryIdsOf(pre.entry)
     /\ Len(entry) = Len(pre.entry)

\* an HEI was deleted while the entry table held a row
C27_Witness ==
  /\ IsRequest("DELETE", "/hei/")
  /\ resp.status = 200
  /\ Len(hei) < Len(pre.hei)
  /\ pre.entry # <<>>
  /\ entry = pre.entry

\* the GET routes
GetRequest ==
  req.method = "GET" /\ req.path \in {"/", "/hei", "/hei/", "/entry", "/entry/"}

\* the GET in progress sent once more, to the store as the first one left it
GetRepeated ==
  CASE req.path = "/" -> index(hei, entry)
    [] req.path = "/hei" ->
         IF req.store = "up"
         THEN get_heis(hei, entry, req.page, req.per_page)
         ELSE get_heis_query_raises(hei, entry, req.page, req.per_page)
    [] req.path = "/hei/" -> get_hei_using_ukprn(hei, entry, req.key)
    [] req.path = "/entry" ->
         IF req.store = "up"
         THEN get_entries(hei, entry, req.page, req.per_page)
         ELSE get_entries_query_raises(hei, entry, req.page, req.per_page)
    [] req.path = "/entry/" -> get_entry(hei, entry, req.key)

\* C28: every GET on /, /hei, /hei/K, /entry and /entry/K is read-only:
\* whatever its outcome (200, 404 or 500) both tables are unchanged, and the
\* same GET sent again to the store it left behind gets the same response
C28_GetReadOnly ==
  GetRequest =>
     /\ resp.status \in {200, 404, 500}
     /\ StoreUnchanged
     /\ GetRepeated.resp = resp
     /\ GetRepeated.hei = hei /\ GetRepeated.entry = entry

\* a GET by key that found its row on a store of two rows
C28_Witness ==
  /\ GetRequest
  /\ req.path = "/entry/"
  /\ resp.status = 200
  /\ Len(pre.hei) + Len(pre.entry) = 2
  /\ StoreUnchanged

\* the request in progress is a PUT or PATCH on path, the store up or down
UpdateOn(path) == req.method \in {"PUT", "PATCH"} /\ req.path = path

\* the order of one update, seen from its outcome: n rows under the path
\* key, a body that is valid or not
UpdateInOrder(n, valid) ==
  LET absent == n = 0 /\ req.method = "PATCH"
      validated == n <= 1 /\ ~absent
  IN  /\ resp.status \in {200, 400, 404, 500}
      /\ absent => resp.status = 404 /\ StoreUnchanged
      /\ (validated /\ ~valid) => resp.status = 400 /\ StoreUnchanged
      /\ (resp.status = 200 \/ ~StoreUnchanged) => validated /\ valid
      /\ (validated /\ valid) => resp.status \in {200, 500}
      /\ (validated /\ valid /\ req.store = "down") => resp.status = 500

\* C29: an update runs lookup, then (PATCH on absence) 404, then validation
\* of the body, then merge and commit, then the success response: merge and
\* commit are reached only after validation has succeeded, and every PUT or
\* PATCH ends in exactly one of the responses 200, 400, 404 or 500
C29_UpdateOrder ==
  /\ UpdateOn("/hei/")
       => UpdateInOrder(Cardinality(HeiRowsAt(pre.hei, req.key)),
                        HeiBodyLoads(req.body, req.method = "PUT"))
  /\ UpdateOn("/entry/")
       => UpdateInOrder(Cardinality(EntryRowsAt(pre.entry, req.key)),
                        EntryBodyLoads(req.body, req.method = "PUT"))

\* an invalid body sent while every commit would raise is answered 400: the
\* commit was not reached
C29_Witness ==
  /\ UpdateOn("/hei/")
  /\ req.store = "down"
  /\ Cardinality(HeiRowsAt(pre.hei, req.key)) = 1
  /\ ~HeiBodyLoads(req.body, req.method = "PUT")
  /\ resp.status = 400


====
